---- MODULE Spec2Model ----
(***************************************************************************)
(* Model of the env-type crate: EnvType parsing and adapters (types.rs),   *)
(* Context / ContextBuilder (context.rs), Environment / EnvironmentBuilder *)
(* (environment.rs) and the debug convenience (is_debug.rs).               *)
(***************************************************************************)
EXTENDS Integers, Sequences, FiniteSets, TLC

VARIABLES
    cb_marker,    \* the marker M of the ContextBuilder<M> under construction
    cbuilder,     \* ContextBuilder<M>: [env_values, default]
    context,      \* the Context<M> returned by ContextBuilder::build, or None
    chist,        \* history: the arguments of the last calls on the builder
    ebuilder,     \* EnvironmentBuilder: [current, contexts]
    environment,  \* the Result of EnvironmentBuilder::build, or None before it
    ehist,        \* history: the arguments of the last calls on the builder
    readers,      \* per reader thread: what it holds from its last lookup
    procenv,      \* the process environment: variable name -> Option<String>
    call          \* the last call observed: [op, arg, ret]

vars == <<cb_marker, cbuilder, context, chist, ebuilder, environment, ehist,
          readers, procenv, call>>

----------------------------------------------------------------------------
(* Bounds of the model. *)

\* values of an integer context range over 1..MaxVal
MaxVal == 2
\* with_values is called with iterators of at most MaxTags items
MaxTags == 2

----------------------------------------------------------------------------
(* Option, Result and typed values. *)

None == [tag |-> "None"]
Some(v) == [tag |-> "Some", val |-> v]
Ok(v) == [tag |-> "Ok", val |-> v]
Err(e) == [tag |-> "Err", err |-> e]

IntV(i) == [ty |-> "i32", i |-> i]
BoolV(b) == [ty |-> "bool", b |-> b]
TagV(t) == [ty |-> "EnvType", t |-> t]

\* Option::or_else
or_else(opt, alt) == IF opt.tag = "Some" THEN opt ELSE alt
\* Option::ok_or
ok_or(opt, e) == IF opt.tag = "Some" THEN Ok(opt.val) ELSE Err(e)
NoCall == [op |-> "none"]

SeqsUpTo(S, n) == UNION {[1..k -> S] : k \in 0..n}
Range(s) == {s[i] : i \in DOMAIN s}

----------------------------------------------------------------------------
(* types.rs: EnvType. *)

\* the variants in declaration order
VARIANTS == <<"Dev", "Test", "Stg", "Prod">>
EnvTypes == Range(VARIANTS)

\* #[default] Dev
EnvTypeDefault == "Dev"

MutSerializationsUpper ==
    [Dev  |-> <<"develop", "Develop", "DEVELOP", "dev", "Dev", "DEV", "d", "D">>,
     Test |-> <<"test", "Test", "TEST", "t", "T">>,
     Stg  |-> <<"staging", "Staging", "STAGING", "stg", "Stg", "STG", "s", "S">>,
     Prod |-> <<"production", "Production", "PRODUCTION", "prod", "Prod", "PROD",
                "p", "P">>]
\* the #[strum(serialize = ...)] attributes of each variant; a variant with
\* explicit serializations is matched by these strings only
Serializations ==
    [Dev  |-> <<"develop", "Develop", "dev", "Dev", "DEV", "d", "D">>,
     Test |-> <<"test", "Test", "TEST", "t", "T">>,
     Stg  |-> <<"staging", "Staging", "stg", "Stg", "STG", "s", "S">>,
     Prod |-> <<"production", "Production", "prod", "Prod", "PROD", "p", "P">>]

\* the strings the model feeds to the parser besides the serializations
OtherStrings ==
    {"", "DeV", "qa", "DEVELOP", "tst", "Development", "production ", "PRODUCTION",
     "sTg", "x"}

Strings == UNION {Range(Serializations[v]) : v \in EnvTypes} \cup OtherStrings

\* the match generated by strum::EnumString: the arms in variant order, the
\* first arm holding the string wins, the fallthrough arm is the error
RECURSIVE from_str_arms(_, _)
from_str_arms(s, i) ==
    IF i > Len(VARIANTS) THEN Err("VariantNotFound")
    ELSE IF \E j \in DOMAIN Serializations[VARIANTS[i]] :
               Serializations[VARIANTS[i]][j] = s
         THEN Ok(TagV(VARIANTS[i]))
         ELSE from_str_arms(s, i + 1)

\* <EnvType as FromStr>::from_str
from_str(s) == from_str_arms(s, 1)

\* Result<EnvType, _>::unwrap_or_default
MutUnwrapTagStrict(res) == IF res.tag = "Ok" THEN res.val ELSE res
unwrap_tag_or_default(res) ==
    IF res.tag = "Ok" THEN res.val ELSE TagV(EnvTypeDefault)

\* Result<String, _>::unwrap_or_default and Option<String>::unwrap_or_default
unwrap_string_or_default(res) ==
    IF res.tag \in {"Ok", "Some"} THEN res.val ELSE ""

\* the EnvKey implementors of the model and EnvKey::key
EnvKeyTypes == {"EnvType", "TestEnv"}
key(K) == IF K = "EnvType" THEN "ENV" ELSE "TEST_ENV"
EnvKeys == {key(K) : K \in EnvKeyTypes}

\* a value a process variable can hold that is not valid unicode
NotUnicode == [tag |-> "NotUnicode"]

\* std::env::var on the process environment pe
env_var(pe, k) ==
    IF pe[k].tag = "Some" THEN Ok(pe[k].val)
    ELSE IF pe[k] = None THEN Err("NotPresent") ELSE Err("NotUnicode")

\* the AsEnvStr sources: EnvType itself, which reads the process environment,
\* and a key -> string store (the Config of the doc example, SecretStore)
ProcessSource == [kind |-> "EnvType"]
StoreSource(m) == [kind |-> "Store", map |-> m]

\* AsEnvStr::as_env_str::<K>
as_env_str(src, K, pe) ==
    IF src.kind = "EnvType"
    THEN unwrap_string_or_default(env_var(pe, key(K)))
    ELSE unwrap_string_or_default(src.map[key(K)])

\* EnvType::from_env_types::<S, K>
from_env_types(src, K, pe) ==
    unwrap_tag_or_default(from_str(as_env_str(src, K, pe)))

\* EnvType::from_env
from_env(pe) == from_env_types(ProcessSource, "EnvType", pe)

\* EnvType::from_env_key::<K>
from_env_key(K, pe) == from_env_types(ProcessSource, K, pe)

\* EnvType::from_env_str; t is what as_env_type_str returns: an Option<String>
from_env_str(t) == unwrap_tag_or_default(from_str(unwrap_string_or_default(t)))

----------------------------------------------------------------------------
(* context.rs: ContextMarker, Context, ContextBuilder. *)

\* the marker types of the model: A and B share the value type i32
Markers == {"A", "B", "IsDebugContext"}

\* ContextMarker::Value
ValueType(M) == IF M = "IsDebugContext" THEN "bool" ELSE "i32"

ValuesOfType(ty) ==
    IF ty = "bool" THEN {BoolV(b) : b \in BOOLEAN} ELSE {IntV(i) : i \in 1..MaxVal}

Values(M) == ValuesOfType(ValueType(M))

\* HashMap::new, HashMap::insert, HashMap::get on maps modelled as functions
HashMapNew == <<>>
HashMapInsert(m, k, v) ==
    [x \in DOMAIN m \cup {k} |-> IF x = k THEN v ELSE m[x]]
HashMapGet(m, k) == IF k \in DOMAIN m THEN Some(m[k]) ELSE None

\* ContextBuilder::default
ContextBuilderDefault == [env_values |-> HashMapNew, default |-> None]

\* ContextBuilder::with_value
with_value(b, env, value) ==
    [b EXCEPT !.env_values = HashMapInsert(b.env_values, env, value)]

\* the for loop of ContextBuilder::with_values
RECURSIVE with_values_loop(_, _, _)
with_values_loop(env_values, envs, value) ==
    IF envs = <<>> THEN env_values
    ELSE with_values_loop(HashMapInsert(env_values, Head(envs), value),
                          Tail(envs), value)

MutWithValuesFirstOnly(b, envs, value) ==
    IF envs = <<>> THEN b
    ELSE [b EXCEPT !.env_values = HashMapInsert(b.env_values, Head(envs), value)]
\* ContextBuilder::with_values
with_values(b, envs, value) ==
    [b EXCEPT !.env_values = with_values_loop(b.env_values, envs, value)]

\* ContextBuilder::with_default
with_default(b, value) == [b EXCEPT !.default = Some(value)]

\* ContextBuilder::build
context_build(b) == [env_values |-> b.env_values, default |-> b.default]

MutGetDefaultFirst(ctx, env) ==
    or_else(ctx.default, HashMapGet(ctx.env_values, env))
\* Context::get_for_env
get_for_env(ctx, env) ==
    or_else(HashMapGet(ctx.env_values, env), ctx.default)

MutTryGetIgnoresDefault(ctx, env) ==
    ok_or(HashMapGet(ctx.env_values, env), "ContextValueNotFound")
\* Context::try_get_for_env
try_get_for_env(ctx, env) ==
    ok_or(get_for_env(ctx, env), "ContextValueNotFound")

----------------------------------------------------------------------------
(* environment.rs: Environment, EnvironmentBuilder. *)

\* the types whose TypeId the registry uses: a marker M and Context<M>
MarkerType(M) == [name |-> M, params |-> <<>>]
ContextType(M) == [name |-> "Context", params |-> <<M>>]

MutTypeIdOfValue(T) ==
    IF T.params = <<>> THEN [type_id |-> MarkerType(ValueType(T.name))]
    ELSE [type_id |-> T]
\* TypeId::of::<T>: one identifier per type
TypeIdOf(T) == [type_id |-> T]

\* Box::new(context) as Box<dyn Any + Send + Sync>: the value and its type
BoxNew(M, ctx) == [type_id |-> TypeIdOf(ContextType(M)), value |-> ctx]

MutDowncastToMarker(box, M) ==
    IF box.type_id = TypeIdOf(MarkerType(M)) THEN Some(box.value) ELSE None
\* <dyn Any>::downcast_ref::<Context<M>>
downcast_ref(box, M) ==
    IF box.type_id = TypeIdOf(ContextType(M)) THEN Some(box.value) ELSE None

\* EnvironmentBuilder::default (derived)
EnvironmentBuilderDefault == [current |-> None, contexts |-> HashMapNew]

\* EnvironmentBuilder::current_env
builder_current_env(b, env) == [b EXCEPT !.current = Some(TagV(env))]

\* the configurations handed to current_from: the TestConfig of the doc
\* example, and stores converted as From<SecretStore> converts
TestConfig == [kind |-> "TestConfig"]

\* <EnvType as From<T>>::from
EnvTypeFrom(config, pe) ==
    IF config = TestConfig THEN TagV("Dev")
    ELSE from_env_types(config, "EnvType", pe)

\* EnvironmentBuilder::current_from
current_from(b, config, pe) ==
    [b EXCEPT !.current = Some(EnvTypeFrom(config, pe))]

MutWithContextKeepsFirst(b, M, ctx) ==
    IF TypeIdOf(MarkerType(M)) \in DOMAIN b.contexts THEN b
    ELSE [b EXCEPT !.contexts =
             HashMapInsert(b.contexts, TypeIdOf(MarkerType(M)), BoxNew(M, ctx))]
\* EnvironmentBuilder::with_context
with_context(b, M, ctx) ==
    [b EXCEPT !.contexts =
        HashMapInsert(b.contexts, TypeIdOf(MarkerType(M)), BoxNew(M, ctx))]

MutBuildDefaultsCurrent(b) ==
    Ok([current |-> IF b.current = None THEN TagV(EnvTypeDefault) ELSE b.current.val,
        contexts |-> b.contexts])
\* EnvironmentBuilder::build
environment_build(b) ==
    IF b.current = None THEN Err("NoCurrentEnv")
    ELSE Ok([current |-> b.current.val, contexts |-> b.contexts])

\* Environment::current_env
current_env(env) == env.current

\* Environment::context::<M>
env_context(env, M) ==
    LET box == HashMapGet(env.contexts, TypeIdOf(MarkerType(M)))
    IN  IF box = None THEN None ELSE downcast_ref(box.val, M)

\* Environment::value::<M>
env_value(env, M, t) ==
    LET ctx == env_context(env, M)
    IN  IF ctx = None THEN None ELSE get_for_env(ctx.val, t)

\* Environment::current_value::<M>
current_value(env, M) == env_value(env, M, current_env(env).t)

----------------------------------------------------------------------------
(* is_debug.rs: the predefined debug context. *)

\* debug_context
debug_context ==
    with_default(with_value(ContextBuilderDefault, "Dev", BoolV(TRUE)), BoolV(FALSE))

MutIsDebugDefaultTrue(env) ==
    LET v == current_value(env, "IsDebugContext")
    IN  IF v = None THEN BoolV(TRUE) ELSE v.val
\* <Environment as IsDebug>::is_debug
is_debug(env) ==
    LET v == current_value(env, "IsDebugContext")
    IN  IF v = None THEN BoolV(FALSE) ELSE v.val

----------------------------------------------------------------------------
(* Values of the variables a specification does not use. *)

Readers == {"r1", "r2"}

NoCHist == [set |-> [t \in EnvTypes |-> None], default |-> None,
            rewritten |-> FALSE]
NoEHist == [current |-> None, registered |-> [M \in Markers |-> None],
            replaced |-> FALSE]
IdleReaders == [r \in Readers |-> [pc |-> "idle"]]
EmptyProcEnv == [k \in EnvKeys |-> None]

CtxIdle ==
    /\ cb_marker = "A"
    /\ cbuilder = ContextBuilderDefault
    /\ context = None
    /\ chist = NoCHist
EnvIdle ==
    /\ ebuilder = EnvironmentBuilderDefault
    /\ environment = None
    /\ ehist = NoEHist
ReadersIdle == readers = IdleReaders
ProcIdle == procenv = EmptyProcEnv

----------------------------------------------------------------------------
(* SpecCtx: one ContextBuilder<M>, the Context<M> it builds and the lookups *)
(* on that context.                                                         *)

\* the history after the calls made inside debug_context()
DebugCHist ==
    [set |-> [t \in EnvTypes |-> IF t = "Dev" THEN Some(BoolV(TRUE)) ELSE None],
     default |-> Some(BoolV(FALSE)), rewritten |-> FALSE]

CtxInit ==
    /\ \/ /\ cb_marker \in Markers
          /\ cbuilder = ContextBuilderDefault
          /\ chist = NoCHist
       \/ /\ cb_marker = "IsDebugContext"
          /\ cbuilder = debug_context
          /\ chist = DebugCHist
    /\ context = None
    /\ call = NoCall
    /\ EnvIdle /\ ReadersIdle /\ ProcIdle

CbWithValue(env, value) ==
    /\ context = None
    /\ cbuilder' = with_value(cbuilder, env, value)
    /\ chist' = [chist EXCEPT !.set[env] = Some(value),
                              !.rewritten = @ \/ chist.set[env] # None]
    /\ UNCHANGED <<cb_marker, context, call, ebuilder, environment, ehist,
                   readers, procenv>>

CbWithValues(envs, value) ==
    /\ context = None
    /\ cbuilder' = with_values(cbuilder, envs, value)
    /\ chist' = [chist EXCEPT
                   !.set = [t \in EnvTypes |->
                              IF \E i \in DOMAIN envs : envs[i] = t
                              THEN Some(value) ELSE chist.set[t]],
                   !.rewritten = @ \/ \E i \in DOMAIN envs :
                                           chist.set[envs[i]] # None]
    /\ UNCHANGED <<cb_marker, context, call, ebuilder, environment, ehist,
                   readers, procenv>>

CbWithDefault(value) ==
    /\ context = None
    /\ cbuilder' = with_default(cbuilder, value)
    /\ chist' = [chist EXCEPT !.default = Some(value),
                              !.rewritten = @ \/ chist.default # None]
    /\ UNCHANGED <<cb_marker, context, call, ebuilder, environment, ehist,
                   readers, procenv>>

CbBuild ==
    /\ context = None
    /\ context' = Some(context_build(cbuilder))
    /\ UNCHANGED <<cb_marker, cbuilder, chist, call, ebuilder, environment, ehist,
                   readers, procenv>>

CtxGetForEnv(env) ==
    /\ context # None
    /\ call' = [op |-> "get_for_env", arg |-> TagV(env),
                ret |-> get_for_env(context.val, env)]
    /\ UNCHANGED <<cb_marker, cbuilder, context, chist, ebuilder, environment,
                   ehist, readers, procenv>>

CtxTryGetForEnv(env) ==
    /\ context # None
    /\ call' = [op |-> "try_get_for_env", arg |-> TagV(env),
                ret |-> try_get_for_env(context.val, env)]
    /\ UNCHANGED <<cb_marker, cbuilder, context, chist, ebuilder, environment,
                   ehist, readers, procenv>>

CtxNext ==
    \/ \E env \in EnvTypes, value \in Values(cb_marker) : CbWithValue(env, value)
    \/ \E envs \in SeqsUpTo(EnvTypes, MaxTags), value \in Values(cb_marker) :
          CbWithValues(envs, value)
    \/ \E value \in Values(cb_marker) : CbWithDefault(value)
    \/ CbBuild
    \/ \E env \in EnvTypes : CtxGetForEnv(env)
    \/ \E env \in EnvTypes : CtxTryGetForEnv(env)

SpecCtx == CtxInit /\ [][CtxNext]_vars

----------------------------------------------------------------------------
(* Properties of Context and ContextBuilder, checked under SpecCtx. *)

\* C1: get_for_env(t) returns the entry stored for t if there is one, else
\* the default if one was set, else None; in terms of the builder calls, the
\* value of the last with_value / with_values covering t, else the value of
\* the last with_default, else None.
C1_GetForEnv ==
    call.op = "get_for_env" =>
        LET t == call.arg.t
            ctx == context.val
        IN  /\ call.ret = IF t \in DOMAIN ctx.env_values
                          THEN Some(ctx.env_values[t])
                          ELSE IF ctx.default # None THEN ctx.default ELSE None
            /\ call.ret = IF chist.set[t] # None THEN chist.set[t]
                          ELSE IF chist.default # None THEN chist.default
                          ELSE None

\* a lookup of a tag without entry that fell back to the default while another
\* tag has an entry with a different value
C1_Witness ==
    /\ call.op = "get_for_env"
    /\ chist.set[call.arg.t] = None
    /\ chist.default # None
    /\ call.ret = chist.default
    /\ \E t2 \in EnvTypes : chist.set[t2] # None /\ chist.set[t2] # chist.default

\* the entries and the default of the builder, and of the context built from
\* it, are those of the last calls
CbHistInv ==
    /\ \A t \in EnvTypes : HashMapGet(cbuilder.env_values, t) = chist.set[t]
    /\ cbuilder.default = chist.default
    /\ context # None =>
          /\ \A t \in EnvTypes : HashMapGet(context.val.env_values, t) = chist.set[t]
          /\ context.val.default = chist.default

\* with_value on a tag leaves the other entries and the default unchanged,
\* with_default leaves the entries unchanged, with_values on an empty
\* iterator changes nothing
CbStep ==
    /\ \A env \in EnvTypes, value \in Values(cb_marker) :
          CbWithValue(env, value) =>
             /\ \A t \in EnvTypes \ {env} :
                   HashMapGet(cbuilder'.env_values, t) = HashMapGet(cbuilder.env_values, t)
             /\ HashMapGet(cbuilder'.env_values, env) = Some(value)
             /\ cbuilder'.default = cbuilder.default
    /\ \A value \in Values(cb_marker) :
          CbWithDefault(value) =>
             /\ cbuilder'.env_values = cbuilder.env_values
             /\ cbuilder'.default = Some(value)
    /\ \A value \in Values(cb_marker) :
          CbWithValues(<<>>, value) => cbuilder' = cbuilder

\* C5: after any sequence of with_value, with_values and with_default calls the
\* built context's entry for each tag is the value of the last call covering
\* that tag (none if there was none) and its default that of the last
\* with_default; with_value touches one entry only, with_default no entry,
\* and with_values on an empty collection nothing.
C5_LastCallWins == [](CbHistInv) /\ [][CbStep]_vars

\* a context was built after an overwriting call, holding two entries and a
\* default
C5_Witness ==
    /\ context # None
    /\ chist.rewritten
    /\ Cardinality(DOMAIN context.val.env_values) >= 2
    /\ context.val.default # None

\* C6: try_get_for_env(t) is Err(ContextValueNotFound) exactly when the
\* context has neither an entry for t nor a default, and otherwise Ok of the
\* value get_for_env(t) returns.
C6_TryGetForEnv ==
    call.op = "try_get_for_env" =>
        LET t == call.arg.t
            ctx == context.val
            missing == t \notin DOMAIN ctx.env_values /\ ctx.default = None
        IN  /\ call.ret = Err("ContextValueNotFound") <=> missing
            /\ ~missing =>
                  /\ call.ret.tag = "Ok"
                  /\ Some(call.ret.val) = get_for_env(ctx, t)
                  /\ call.ret.val = IF chist.set[t] # None THEN chist.set[t].val
                                    ELSE chist.default.val

\* a fallible lookup on a context with an entry for another tag only
C6_Witness ==
    /\ call.op = "try_get_for_env"
    /\ call.ret = Err("ContextValueNotFound")
    /\ context.val.env_values # HashMapNew

----------------------------------------------------------------------------
(* SpecParse: the parser and the adapters of types.rs over a process        *)
(* environment that set_var and remove_var change between the calls.        *)

\* the values the model gives to the variable k
VarValues(k) == IF k = "ENV" THEN Strings ELSE {"t", "TEST", "qa", ""}

\* the stores handed to from_env_types
StoreValues == {None, Some(""), Some("p"), Some("Staging"), Some("qa")}
Stores == {StoreSource([ENV |-> a, TEST_ENV |-> b]) :
              a \in StoreValues, b \in {None, Some("t")}}

ParseInit ==
    /\ procenv = EmptyProcEnv
    /\ call = NoCall
    /\ CtxIdle /\ EnvIdle /\ ReadersIdle

\* std::env::set_var; what an earlier call returned is no longer current
SetVar(k, s) ==
    /\ procenv' = [procenv EXCEPT ![k] = Some(s)]
    /\ call' = NoCall
    /\ UNCHANGED <<cb_marker, cbuilder, context, chist, ebuilder, environment,
                   ehist, readers>>

\* std::env::set_var with a value that is not valid unicode
SetVarNotUnicode(k) ==
    /\ procenv' = [procenv EXCEPT ![k] = NotUnicode]
    /\ call' = NoCall
    /\ UNCHANGED <<cb_marker, cbuilder, context, chist, ebuilder, environment,
                   ehist, readers>>

\* std::env::remove_var
RemoveVar(k) ==
    /\ procenv' = [procenv EXCEPT ![k] = None]
    /\ call' = NoCall
    /\ UNCHANGED <<cb_marker, cbuilder, context, chist, ebuilder, environment,
                   ehist, readers>>

FromStr(s) ==
    /\ call' = [op |-> "from_str", arg |-> s, ret |-> from_str(s)]
    /\ UNCHANGED <<cb_marker, cbuilder, context, chist, ebuilder, environment,
                   ehist, readers, procenv>>

FromEnv ==
    /\ call' = [op |-> "from_env", arg |-> "EnvType", ret |-> from_env(procenv)]
    /\ UNCHANGED <<cb_marker, cbuilder, context, chist, ebuilder, environment,
                   ehist, readers, procenv>>

FromEnvKey(K) ==
    /\ call' = [op |-> "from_env_key", arg |-> K, ret |-> from_env_key(K, procenv)]
    /\ UNCHANGED <<cb_marker, cbuilder, context, chist, ebuilder, environment,
                   ehist, readers, procenv>>

FromEnvTypes(src, K) ==
    /\ call' = [op |-> "from_env_types", arg |-> [src |-> src, K |-> K],
                ret |-> from_env_types(src, K, procenv)]
    /\ UNCHANGED <<cb_marker, cbuilder, context, chist, ebuilder, environment,
                   ehist, readers, procenv>>

FromEnvStr(t) ==
    /\ call' = [op |-> "from_env_str", arg |-> t, ret |-> from_env_str(t)]
    /\ UNCHANGED <<cb_marker, cbuilder, context, chist, ebuilder, environment,
                   ehist, readers, procenv>>

ParseNext ==
    \/ \E k \in EnvKeys : \E s \in VarValues(k) : SetVar(k, s)
    \/ \E k \in EnvKeys : SetVarNotUnicode(k)
    \/ \E k \in EnvKeys : RemoveVar(k)
    \/ \E s \in Strings : FromStr(s)
    \/ FromEnv
    \/ \E K \in EnvKeyTypes : FromEnvKey(K)
    \/ \E src \in Stores \cup {ProcessSource}, K \in EnvKeyTypes : FromEnvTypes(src, K)
    \/ \E t \in {None} \cup {Some(s) : s \in Strings} : FromEnvStr(t)

SpecParse == ParseInit /\ [][ParseNext]_vars

----------------------------------------------------------------------------
(* Properties of the parser and the adapters, checked under SpecParse. *)

\* the alias table of the specification
AliasTable ==
    [Dev  |-> {"develop", "Develop", "dev", "Dev", "DEV", "d", "D"},
     Test |-> {"test", "Test", "TEST", "t", "T"},
     Stg  |-> {"staging", "Staging", "stg", "Stg", "STG", "s", "S"},
     Prod |-> {"production", "Production", "prod", "Prod", "PROD", "p", "P"}]

AliasCount == [Dev |-> 7, Test |-> 5, Stg |-> 7, Prod |-> 7]

\* C7: from_str maps each of the 26 strings of the alias table to the tag it
\* is listed under and every other string, the empty one and other casings
\* included, to the parse error; no string is accepted for two tags.
C7_FromStr ==
    /\ \A v \in EnvTypes :
          /\ Cardinality(AliasTable[v]) = AliasCount[v]
          /\ \A w \in EnvTypes \ {v} :
                Range(Serializations[v]) \cap Range(Serializations[w]) = {}
    /\ call.op = "from_str" =>
          /\ \A v \in EnvTypes :
                call.arg \in AliasTable[v] => call.ret = Ok(TagV(v))
          /\ (\A v \in EnvTypes : call.arg \notin AliasTable[v]) =>
                call.ret = Err("VariantNotFound")

\* another casing of an alias was refused
C7_Witness ==
    /\ call.op = "from_str"
    /\ call.arg = "DEVELOP"
    /\ call.ret.tag = "Err"

\* the tag the adapters owe for the string they obtained, if any
AdapterTag(optstr) ==
    IF optstr.tag = "Some" /\ \E v \in EnvTypes : optstr.val \in AliasTable[v]
    THEN TagV(CHOOSE v \in EnvTypes : optstr.val \in AliasTable[v])
    ELSE TagV("Dev")

\* C8: every adapter returns the tag whose alias its source holds now, and
\* Dev, never an error, when the source holds nothing, the empty string or
\* anything else that does not parse; the process-environment adapters go by
\* the variable's value at the time of the call.
C8_Adapters ==
    /\ call.op = "from_env" => call.ret = AdapterTag(procenv["ENV"])
    /\ call.op = "from_env_key" => call.ret = AdapterTag(procenv[key(call.arg)])
    /\ call.op = "from_env_types" =>
          call.ret = AdapterTag(IF call.arg.src.kind = "EnvType"
                                THEN procenv[key(call.arg.K)]
                                ELSE call.arg.src.map[key(call.arg.K)])
    /\ call.op = "from_env_str" => call.ret = AdapterTag(call.arg)

\* from_env_key read a variable of its own name while ENV held something else
C8_Witness ==
    /\ call.op = "from_env_key"
    /\ call.arg = "TestEnv"
    /\ procenv["TEST_ENV"] = Some("t")
    /\ procenv["ENV"] = Some("Production")
    /\ call.ret = TagV("Test")

----------------------------------------------------------------------------
(* Spec: one EnvironmentBuilder, the Environment it builds and the lookups  *)
(* on that environment.                                                     *)

\* the values the sample contexts hold: both booleans, the ends of the integers
SampleValues(M) ==
    IF ValueType(M) = "bool" THEN Values(M) ELSE {IntV(1), IntV(MaxVal)}

\* the contexts handed to with_context::<M>, each built by a ContextBuilder<M>
SampleBuilders(M) ==
    IF M = "IsDebugContext"
    THEN {debug_context, with_value(debug_context, "Stg", BoolV(TRUE))}
    ELSE LET entries == {ContextBuilderDefault}
                        \cup {with_value(ContextBuilderDefault, "Dev", v) :
                                 v \in SampleValues(M)}
         IN  entries \cup {with_default(b, d) : b \in entries, d \in SampleValues(M)}

SampleContexts(M) == {context_build(b) : b \in SampleBuilders(M)}

\* the configurations handed to current_from
Configs ==
    {TestConfig} \cup
    {StoreSource([ENV |-> a, TEST_ENV |-> None]) : a \in {None, Some("p"), Some("qa")}}

Init ==
    /\ ebuilder = EnvironmentBuilderDefault
    /\ environment = None
    /\ ehist = NoEHist
    /\ call = NoCall
    /\ CtxIdle /\ ReadersIdle /\ ProcIdle

EbCurrentEnv(env) ==
    /\ environment = None
    /\ ebuilder' = builder_current_env(ebuilder, env)
    /\ ehist' = [ehist EXCEPT !.current = Some([op |-> "current_env", arg |-> TagV(env)])]
    /\ UNCHANGED <<cb_marker, cbuilder, context, chist, environment, readers,
                   procenv, call>>

EbCurrentFrom(config) ==
    /\ environment = None
    /\ ebuilder' = current_from(ebuilder, config, procenv)
    /\ ehist' = [ehist EXCEPT !.current = Some([op |-> "current_from", arg |-> config])]
    /\ UNCHANGED <<cb_marker, cbuilder, context, chist, environment, readers,
                   procenv, call>>

EbWithContext(M, ctx) ==
    /\ environment = None
    /\ ebuilder' = with_context(ebuilder, M, ctx)
    /\ ehist' = [ehist EXCEPT
                   !.registered[M] = Some(ctx),
                   !.replaced = @ \/ ehist.registered[M] \notin {None, Some(ctx)}]
    /\ UNCHANGED <<cb_marker, cbuilder, context, chist, environment, readers,
                   procenv, call>>

EbBuild ==
    /\ environment = None
    /\ environment' = Some(environment_build(ebuilder))
    /\ UNCHANGED <<cb_marker, cbuilder, context, chist, ebuilder, ehist, readers,
                   procenv, call>>

\* the Environment, once build has returned Ok
Built == environment # None /\ environment.val.tag = "Ok"
Env == environment.val.val

EnvCurrentEnv ==
    /\ Built
    /\ call' = [op |-> "current_env", ret |-> current_env(Env)]
    /\ UNCHANGED <<cb_marker, cbuilder, context, chist, ebuilder, environment,
                   ehist, readers, procenv>>

EnvContext(M) ==
    /\ Built
    /\ call' = [op |-> "context", arg |-> [M |-> M], ret |-> env_context(Env, M)]
    /\ UNCHANGED <<cb_marker, cbuilder, context, chist, ebuilder, environment,
                   ehist, readers, procenv>>

EnvValue(M, t) ==
    /\ Built
    /\ call' = [op |-> "value", arg |-> [M |-> M, env |-> t],
                ret |-> env_value(Env, M, t)]
    /\ UNCHANGED <<cb_marker, cbuilder, context, chist, ebuilder, environment,
                   ehist, readers, procenv>>

EnvCurrentValue(M) ==
    /\ Built
    /\ call' = [op |-> "current_value", arg |-> [M |-> M],
                ret |-> current_value(Env, M)]
    /\ UNCHANGED <<cb_marker, cbuilder, context, chist, ebuilder, environment,
                   ehist, readers, procenv>>

EnvIsDebug ==
    /\ Built
    /\ call' = [op |-> "is_debug", ret |-> is_debug(Env)]
    /\ UNCHANGED <<cb_marker, cbuilder, context, chist, ebuilder, environment,
                   ehist, readers, procenv>>

Next ==
    \/ \E env \in EnvTypes : EbCurrentEnv(env)
    \/ \E config \in Configs : EbCurrentFrom(config)
    \/ \E M \in Markers : \E ctx \in SampleContexts(M) : EbWithContext(M, ctx)
    \/ EbBuild
    \/ EnvCurrentEnv
    \/ \E M \in Markers : EnvContext(M)
    \/ \E M \in Markers, t \in EnvTypes : EnvValue(M, t)
    \/ \E M \in Markers : EnvCurrentValue(M)
    \/ EnvIsDebug

Spec == Init /\ [][Next]_vars

----------------------------------------------------------------------------
(* Properties of EnvironmentBuilder and Environment, checked under Spec. *)

\* the lookups the builder's registry would answer if it were built now
Pending == [current |-> TagV(EnvTypeDefault), contexts |-> ebuilder.contexts]

\* what the context last registered for K yields for t
Registered(K, t) ==
    IF ehist.registered[K] = None THEN None
    ELSE get_for_env(ehist.registered[K].val, t)

C2_Independent ==
    Built =>
       \A K1 \in Markers : \A K2 \in Markers \ {K1} :
          (ehist.registered[K1] # None /\ ehist.registered[K2] # None) =>
             \A t \in EnvTypes :
                /\ env_value(Env, K1, t) = get_for_env(ehist.registered[K1].val, t)
                /\ env_value(Env, K2, t) = get_for_env(ehist.registered[K2].val, t)

\* a step that registered a context for a key K2 other than K1
C2_Step ==
    \A K1 \in Markers :
       (\E K2 \in Markers \ {K1} : ehist'.registered[K2] # ehist.registered[K2]) =>
          \A t \in EnvTypes :
             env_value(Pending', K1, t) = env_value(Pending, K1, t)

\* C2: with contexts registered for two distinct keys, two keys of one value
\* type included, value::<K1> and value::<K2> return for every tag what the
\* key's own registered context yields, and registering a context for K2
\* changes no lookup result for K1.
C2_DistinctKeys == [](C2_Independent) /\ [][C2_Step]_vars

\* A and B, both of type i32, are registered with different contexts and a
\* lookup under B returned B's value, which differs from A's
C2_Witness ==
    /\ Built
    /\ ehist.registered["A"] # None
    /\ ehist.registered["B"] # None
    /\ call.op = "value"
    /\ call.arg = [M |-> "B", env |-> "Dev"]
    /\ call.ret # None
    /\ call.ret # env_value(Env, "A", "Dev")
    /\ env_value(Env, "A", "Dev") # None

\* C3: after several with_context calls for one key the environment holds the
\* last registered context for it as a whole: context::<K> returns that
\* context, value::<K>(t) and current_value::<K> what it yields, and nothing
\* of an earlier context shows for tags the last one does not cover.
C3_LastContext ==
    /\ call.op = "context" => call.ret = ehist.registered[call.arg.M]
    /\ call.op = "value" => call.ret = Registered(call.arg.M, call.arg.env)
    /\ call.op = "current_value" =>
          call.ret = Registered(call.arg.M, environment.val.val.current.t)

\* A's context was replaced, last by one without entries and default, and the
\* lookup under A found nothing
C3_Witness ==
    /\ ehist.replaced
    /\ ehist.registered["A"] = Some(context_build(ContextBuilderDefault))
    /\ ehist.registered["B"] = None
    /\ ehist.registered["IsDebugContext"] = None
    /\ call.op = "value"
    /\ call.arg = [M |-> "A", env |-> "Dev"]
    /\ call.ret = None

\* the tag given by a current_env or current_from call
GivenTag(c) ==
    IF c.op = "current_env" THEN c.arg
    ELSE IF c.arg = TestConfig THEN TagV("Dev")
    ELSE AdapterTag(c.arg.map["ENV"])

\* C4: build returns Err(NoCurrentEnv) exactly when neither current_env nor
\* current_from was called, whatever contexts were added; otherwise it
\* succeeds and current_env() is the tag given by the last of these calls.
C4_Build ==
    /\ environment # None =>
          /\ environment.val = Err("NoCurrentEnv") <=> ehist.current = None
          /\ ehist.current # None =>
                /\ environment.val.tag = "Ok"
                /\ current_env(environment.val.val) = GivenTag(ehist.current.val)
    /\ call.op = "current_env" => call.ret = GivenTag(ehist.current.val)

\* build failed on a builder that holds contexts but no current tag
C4_Witness ==
    /\ environment = Some(Err("NoCurrentEnv"))
    /\ ehist.registered["A"] # None
    /\ ehist.registered["IsDebugContext"] # None

\* the context debug_context().build() is specified to be
DefaultDebugContext ==
    [env_values |-> [t \in {"Dev"} |-> BoolV(TRUE)], default |-> Some(BoolV(FALSE))]

\* C9: with debug_context().build() registered is_debug() is true when the
\* current tag is Dev and false when it is Test, Stg or Prod; with no debug
\* context registered it is false for every current tag.
C9_IsDebug ==
    /\ context_build(debug_context) = DefaultDebugContext
    /\ call.op = "is_debug" =>
          /\ ehist.registered["IsDebugContext"] = Some(DefaultDebugContext) =>
                call.ret = BoolV(GivenTag(ehist.current.val) = TagV("Dev"))
          /\ ehist.registered["IsDebugContext"] = None => call.ret = BoolV(FALSE)

\* is_debug() answered false under Prod with the default debug context
C9_Witness ==
    /\ call.op = "is_debug"
    /\ ehist.registered["IsDebugContext"] = Some(DefaultDebugContext)
    /\ environment.val.val.current = TagV("Prod")
    /\ call.ret = BoolV(FALSE)

\* the registry of contexts: every key is the identity of a marker K for which
\* with_context was called, its box holds a Context<K>, the context last
\* passed for K; and every such K has its key
RegistryTyped(contexts) ==
    /\ \A id \in DOMAIN contexts :
          \E K \in Markers :
             /\ id = [type_id |-> MarkerType(K)]
             /\ ehist.registered[K] # None
             /\ contexts[id].type_id = [type_id |-> ContextType(K)]
             /\ contexts[id].value = ehist.registered[K].val
    /\ \A K \in Markers :
          ehist.registered[K] # None <=> [type_id |-> MarkerType(K)] \in DOMAIN contexts

\* context::<K> on the registry: the stored context exactly for the keys
\* registered, and the downcast of a registered key's box succeeds
RegistryLookups(env) ==
    \A K \in Markers :
       /\ env_context(env, K) = ehist.registered[K]
       /\ ehist.registered[K] # None =>
             downcast_ref(env.contexts[TypeIdOf(MarkerType(K))], K) # None

\* C11: in every state of the builder and of the environment built from it
\* each entry of contexts is keyed by the identity of some key K and stores
\* the Context<K> last passed to with_context for K; context::<K> returns it
\* if and only if with_context was called for K, None otherwise, and the
\* downcast of a registered key's entry never fails.
C11_Registry ==
    /\ RegistryTyped(ebuilder.contexts)
    /\ RegistryLookups(Pending)
    /\ Built => RegistryTyped(Env.contexts) /\ RegistryLookups(Env)
    /\ call.op = "context" =>
          (call.ret # None <=> ehist.registered[call.arg.M] # None)

\* with A registered more than once and B never, context::<A> returned the
\* context last registered
C11_Witness ==
    /\ Built
    /\ ehist.replaced
    /\ ehist.registered["A"] # None
    /\ ehist.registered["B"] = None
    /\ ehist.registered["IsDebugContext"] = None
    /\ call.op = "context"
    /\ call.arg.M = "A"
    /\ call.ret = ehist.registered["A"]

----------------------------------------------------------------------------
(* SpecReaders: a built Environment shared by reader threads. A reader      *)
(* holds what its last lookup returned: a reference to a context, or a      *)
(* value of its own, which it may then change.                              *)

\* where a value lives: in a reader, or in a field of the environment
Owned == [kind |-> "owned"]
EntryLoc(M, t) == [kind |-> "entry", M |-> M, env |-> t]
DefaultLoc(M) == [kind |-> "default", M |-> M]

MutCloneShares(v, loc) == [val |-> v, loc |-> loc]
\* Clone::clone of the value at loc (cloned(), default.clone()): a value of
\* the caller's own
clone_value(v, loc) == [val |-> v, loc |-> Owned]

\* Context::get_for_env as a reader receives it: the clone of the entry, else
\* the clone of the default
returned_for_env(ctx, M, t) ==
    IF t \in DOMAIN ctx.env_values
    THEN Some(clone_value(ctx.env_values[t], EntryLoc(M, t)))
    ELSE IF ctx.default # None
         THEN Some(clone_value(ctx.default.val, DefaultLoc(M)))
         ELSE None

\* Environment::value as a reader receives it
returned_value(env, M, t) ==
    LET ctx == env_context(env, M)
    IN  IF ctx = None THEN None ELSE returned_for_env(ctx.val, M, t)

\* a write through loc into the environment
WriteAt(env, loc, v) ==
    LET id == TypeIdOf(MarkerType(loc.M))
    IN  IF loc.kind = "entry"
        THEN [env EXCEPT !.contexts[id].value.env_values[loc.env] = v]
        ELSE [env EXCEPT !.contexts[id].value.default = Some(v)]

\* the environments the readers share
ReaderCurrents == {"Dev", "Prod"}
ReaderContexts ==
    {context_build(ContextBuilderDefault),
     context_build(with_value(ContextBuilderDefault, "Dev", IntV(1))),
     context_build(with_default(with_value(ContextBuilderDefault, "Dev", IntV(1)),
                                IntV(MaxVal)))}

ReadersInit ==
    /\ \E t \in ReaderCurrents :
       \E a \in {None} \cup {Some(c) : c \in ReaderContexts} :
       \E d \in {None, Some(context_build(debug_context))} :
          LET b0 == builder_current_env(EnvironmentBuilderDefault, t)
              b1 == IF a = None THEN b0 ELSE with_context(b0, "A", a.val)
              b2 == IF d = None THEN b1 ELSE with_context(b1, "IsDebugContext", d.val)
          IN  /\ ebuilder = b2
              /\ environment = Some(environment_build(b2))
              /\ ehist = [current |-> Some([op |-> "current_env", arg |-> TagV(t)]),
                          registered |-> [M \in Markers |->
                                            IF M = "A" THEN a
                                            ELSE IF M = "IsDebugContext" THEN d
                                            ELSE None],
                          replaced |-> FALSE]
    /\ readers = IdleReaders
    /\ call = NoCall
    /\ CtxIdle /\ ProcIdle

RdCurrentEnv(r) ==
    /\ readers' = [readers EXCEPT ![r] =
                     [pc |-> "done", op |-> "current_env", ret |-> current_env(Env)]]
    /\ UNCHANGED <<cb_marker, cbuilder, context, chist, ebuilder, environment,
                   ehist, procenv, call>>

\* Environment::context: the reader holds a reference to the stored context
RdContext(r, M) ==
    /\ readers' = [readers EXCEPT ![r] =
                     IF env_context(Env, M) = None
                     THEN [pc |-> "done", op |-> "context", M |-> M, ret |-> None]
                     ELSE [pc |-> "ref", M |-> M]]
    /\ UNCHANGED <<cb_marker, cbuilder, context, chist, ebuilder, environment,
                   ehist, procenv, call>>

\* Context::get_for_env through the reference held
RdGetForEnv(r, t) ==
    /\ readers[r].pc = "ref"
    /\ LET M == readers[r].M
       IN  readers' = [readers EXCEPT ![r] =
                         [pc |-> "done", op |-> "get_for_env", M |-> M, env |-> t,
                          ret |-> returned_for_env(env_context(Env, M).val, M, t)]]
    /\ UNCHANGED <<cb_marker, cbuilder, context, chist, ebuilder, environment,
                   ehist, procenv, call>>

\* Context::try_get_for_env through the reference held
RdTryGetForEnv(r, t) ==
    /\ readers[r].pc = "ref"
    /\ LET M == readers[r].M
       IN  readers' = [readers EXCEPT ![r] =
                         [pc |-> "done", op |-> "try_get_for_env", M |-> M, env |-> t,
                          ret |-> ok_or(returned_for_env(env_context(Env, M).val, M, t),
                                        "ContextValueNotFound")]]
    /\ UNCHANGED <<cb_marker, cbuilder, context, chist, ebuilder, environment,
                   ehist, procenv, call>>

RdValue(r, M, t) ==
    /\ readers' = [readers EXCEPT ![r] =
                     [pc |-> "done", op |-> "value", M |-> M, env |-> t,
                      ret |-> returned_value(Env, M, t)]]
    /\ UNCHANGED <<cb_marker, cbuilder, context, chist, ebuilder, environment,
                   ehist, procenv, call>>

RdCurrentValue(r, M) ==
    /\ readers' = [readers EXCEPT ![r] =
                     [pc |-> "done", op |-> "current_value", M |-> M,
                      env |-> current_env(Env).t,
                      ret |-> returned_value(Env, M, current_env(Env).t)]]
    /\ UNCHANGED <<cb_marker, cbuilder, context, chist, ebuilder, environment,
                   ehist, procenv, call>>

\* the reader changes the value it was returned; a value that is not the
\* reader's own changes where it lives
RdChange(r, v) ==
    /\ readers[r].pc = "done"
    /\ readers[r].op \in {"get_for_env", "try_get_for_env", "value", "current_value"}
    /\ readers[r].ret.tag \in {"Some", "Ok"}
    /\ v \in Values(readers[r].M) \ {readers[r].ret.val.val}
    /\ readers' = [readers EXCEPT ![r] =
                     [pc |-> "changed", M |-> readers[r].M, val |-> v]]
    /\ environment' = IF readers[r].ret.val.loc = Owned THEN environment
                      ELSE Some(Ok(WriteAt(Env, readers[r].ret.val.loc, v)))
    /\ UNCHANGED <<cb_marker, cbuilder, context, chist, ebuilder, ehist, procenv,
                   call>>

ReadersNext ==
    \E r \in Readers :
       \/ RdCurrentEnv(r)
       \/ \E M \in Markers : RdContext(r, M)
       \/ \E t \in EnvTypes : RdGetForEnv(r, t)
       \/ \E t \in EnvTypes : RdTryGetForEnv(r, t)
       \/ \E M \in Markers, t \in EnvTypes : RdValue(r, M, t)
       \/ \E M \in Markers : RdCurrentValue(r, M)
       \/ \E v \in ValuesOfType("i32") \cup ValuesOfType("bool") : RdChange(r, v)

SpecReaders == ReadersInit /\ [][ReadersNext]_vars

----------------------------------------------------------------------------
(* Properties of the shared Environment, checked under SpecReaders. *)

\* what a reader was returned, without where it lives
Plain(ret) ==
    IF ret.tag = "Some" THEN Some(ret.val.val)
    ELSE IF ret.tag = "Ok" THEN Ok(ret.val.val) ELSE ret

\* the environment is the one that was built
EnvAsBuilt ==
    /\ Built
    /\ current_env(Env) = GivenTag(ehist.current.val)
    /\ \A M \in Markers : env_context(Env, M) = ehist.registered[M]
    /\ Env.contexts = ebuilder.contexts

\* every lookup returned what the environment as built yields
LookupsAsBuilt ==
    \A r \in Readers :
       readers[r].pc = "done" =>
          LET l == readers[r]
          IN  CASE l.op = "current_env" -> l.ret = GivenTag(ehist.current.val)
                [] l.op = "context" -> l.ret = ehist.registered[l.M]
                [] l.op = "try_get_for_env" ->
                      Plain(l.ret) = ok_or(Registered(l.M, l.env), "ContextValueNotFound")
                [] OTHER -> Plain(l.ret) = Registered(l.M, l.env)

====
